---- MODULE Spec2Model ----
(***************************************************************************)
(* Model of the subprocess helpers of src/src/cmd/utilities.rs:            *)
(*   exec, exec_with_envs, exec_with_output, exec_with_envs_and_output,    *)
(*   _with_output, does_binary_exist, command_to_string and                *)
(*   command_with_envs_to_string.                                          *)
(*                                                                         *)
(* One behaviour is one call of one of these functions by a synchronous    *)
(* caller, together with the child process the call creates.  The child    *)
(* is an arbitrary program: it writes bytes to its standard output and     *)
(* standard error in any order, blocks when the pipe it writes to is full, *)
(* and exits with any status.  The two pipes are the kernel buffers        *)
(* between the child and the parent, each of capacity PipeCap.             *)
(***************************************************************************)
EXTENDS Integers, Sequences, FiniteSets, TLC

\* ------------------------------------------------------------------ bounds
\* Capacity, in bytes, of one kernel pipe buffer.
PipeCap == 2
\* Most bytes the child writes to one stream.
MaxBytes == 3
\* Largest exit code the child exits with.
MaxExitCode == 2
\* Longest argument list and longest list of environment overrides given to
\* the formatter.
MaxArgs == 2
MaxEnvs == 2
\* Longest locator given to the builder.
MaxLocLen == 5
\* Longest cluster list the API answers with.
MaxClusters == 2

\* ------------------------------------------------------------------ values
\* The bytes a child writes: a text byte, the line feed, and a byte that is
\* no valid UTF-8.  No child writes a carriage return, so the removal of a
\* "\r" before the line feed by lines() is not exercised.
LF == "\n"
BAD == "?"
Bytes == {"a", LF, BAD}

\* std::process::ExitStatus: a normal exit with a code, or death by a signal.
ExitStatuses ==
    [kind : {"exited"}, n : 0..MaxExitCode] \cup {[kind |-> "signaled", n |-> 9]}

NoStatus == [kind |-> "none", n |-> 0]

\* Mutant: success() true for every normal exit, whatever the code.
Success_AnyCode(st) == st.kind = "exited"

\* ExitStatus::success(), as used at lines 70, 96, 149, 185.
Success(st) == st.kind = "exited" /\ st.n = 0

ObservedEntries == {"exec_with_output", "exec_with_envs_and_output"}
PlainEntries == {"exec", "exec_with_envs"}
Entries == PlainEntries \cup ObservedEntries

VARIABLES
    entry,        \* the function called, "none" before the call
    pc,           \* where the parent is in that function
    child,        \* "none", "running", "exited" (not reaped), "reaped"
    childPend,    \* <<>> or <<stream, byte>>: the write the child is blocked in
    exitStatus,   \* the status the child exited with
    outPipe, errPipe,         \* bytes in the kernel pipe buffers
    outWritten, errWritten,   \* every byte the child has written, in order
    outBuf, errBuf,           \* bytes the parent's BufReader has read and not yet returned as a line
    outCalls, errCalls,       \* the calls made to stdout_output / stderr_output
    outEof, errEof,           \* the parent has seen end-of-stream
    waitCalled,               \* the parent has called Child::wait
    waitResult,               \* "none", or what wait() returned: "ok" or "err"
    outcome,                  \* the values returned to the caller, in order
    fmtIn, command_string,    \* the formatter's input and its result
    bldIn, built,             \* the builder's input and the Command it built
    lkIn, lkOut,              \* the cluster lookup's input and its result
    caller,                   \* who called the entry point: "none", "direct" or "run_version_command_for"
    output_from_cmd,          \* the String run_version_command_for collects
    handles                   \* what the parent's Child value holds open

procVars == <<entry, pc, child, childPend, exitStatus, outPipe, errPipe,
              outWritten, errWritten, outBuf, errBuf, outCalls, errCalls,
              outEof, errEof, waitCalled, waitResult, outcome,
              caller, output_from_cmd, handles>>
runVars == <<caller, output_from_cmd, handles>>
fmtVars == <<fmtIn, command_string>>
bldVars == <<bldIn, built>>
lkVars == <<lkIn, lkOut>>
vars == <<procVars, fmtVars, bldVars, lkVars>>

\* ------------------------------------------------------- results, outcomes
\* Result<(), SimpleError> of the four entry points, and the bool of the probe.
OkOutcome == [tag |-> "Ok", status |-> NoStatus]
\* SimpleError::new(SimpleErrorKind::Command(exit_status), ...), lines 74-77.
CommandError(st) == [tag |-> "Command", status |-> st]
\* SimpleError::from(err) for the io::Error of wait(), lines 67, 93, 146, 182.
SimpleErrorFrom == [tag |-> "FromIoError", status |-> NoStatus]
BoolOutcome(b) == [tag |-> IF b THEN "true" ELSE "false", status |-> NoStatus]

\* Mutant: the mapping reports every exit, successful or not, as an error.
MapExitStatus_AlwaysError(st) == CommandError(st)

\* The tail of the entry points: what they return for the status wait() gave.
MapExitStatus(st) == IF Success(st) THEN OkOutcome ELSE CommandError(st)

\* --------------------------------------------------------------- BufRead::lines
HasLF(s) == \E i \in 1..Len(s) : s[i] = LF
FirstLF(s) == CHOOSE i \in 1..Len(s) : s[i] = LF /\ \A j \in 1..(i - 1) : s[j] # LF

\* One item of reader.lines(): the bytes of a line without its line feed become
\* Ok(text), or Err(InvalidData) when they are no valid UTF-8.
LineItem(bs) ==
    IF \E i \in 1..Len(bs) : bs[i] = BAD
    THEN [ok |-> FALSE, text |-> <<>>]
    ELSE [ok |-> TRUE, text |-> bs]

\* What the parent's Child value owns after spawn(): the read ends of the two
\* pipes (lines 41-43; stdin is not piped) and the process handle.
ChildHandles == {"stdout", "stderr", "process"}

\* --version, the one argument of run_version_command_for (line 200).
VersionArg == <<"-", "-", "v", "e", "r", "s", "i", "o", "n">>

\* The stdout closure of run_version_command_for (lines 201-209): Ok(s) is
\* pushed onto output_from_cmd, an Err is logged.
VersionStdoutHandler(acc, item) == IF item.ok THEN acc \o item.text ELSE acc

\* Mutant: the stderr closure pushes its lines onto output_from_cmd too.
VersionStderrHandler_Pushes(acc, item) == IF item.ok THEN acc \o item.text ELSE acc

\* The stderr closure of run_version_command_for (lines 210-218): it logs.
VersionStderrHandler(acc, item) == acc

\* ------------------------------------------------------ the command formatter
\* Text is a sequence of characters.  The locators, arguments and overrides
\* the formatter is applied to:
TmpWorkMytool ==
    <<"/", "t", "m", "p", "/", "w", "o", "r", "k", " ", "m", "y", "t", "o", "o", "l">>
FlagArg == <<"-", "-", "f", "l", "a", "g">>
Locators == {<<"b">>, <<"d", " ", "b">>, TmpWorkMytool}
ArgWords == {FlagArg, <<"x">>}
EnvPairs == {<<<<"F", "O", "O">>, <<"b", "a", "r">>>>, <<<<"K">>, <<"v">>>>}

SeqsUpTo(S, n) == UNION {[1..m -> S] : m \in 0..n}

\* [&str]::join(sep), as in args.join(" ") and _envs.join(" ").
RECURSIVE Join(_, _)
Join(ss, sep) ==
    IF ss = <<>> THEN <<>>
    ELSE IF Len(ss) = 1 THEN ss[1]
    ELSE ss[1] \o sep \o Join(Tail(ss), sep)

\* format!("{} {}", binary.as_ref().to_str().unwrap(), args.join(" "))
command_to_string(binary, args) == binary \o <<" ">> \o Join(args, <<" ">>)

\* envs.iter().map(|(k, v)| format!("{}={}", k, v)).collect()
EnvStrings(envs) == [i \in 1..Len(envs) |-> envs[i][1] \o <<"=">> \o envs[i][2]]

\* Mutant: the locator is formatted before the overrides.
command_with_envs_to_string_BinaryFirst(binary, args, envs) ==
    binary \o <<" ">> \o Join(EnvStrings(envs), <<" ">>) \o <<" ">> \o Join(args, <<" ">>)

\* format!("{} {} {}", _envs.join(" "), binary..., args.join(" "))
command_with_envs_to_string(binary, args, envs) ==
    Join(EnvStrings(envs), <<" ">>) \o <<" ">> \o binary \o <<" ">> \o Join(args, <<" ">>)

\* ---------------------------------------------------------- the command builder
\* char::is_whitespace, for the whitespace characters a locator here holds.
IsWhitespace(c) == c \in {" ", "\t", LF}

\* str::split_whitespace: the maximal runs of characters that are no whitespace.
RECURSIVE SplitWsAcc(_, _)
SplitWsAcc(s, cur) ==
    IF s = <<>> THEN (IF cur = <<>> THEN <<>> ELSE <<cur>>)
    ELSE IF IsWhitespace(Head(s))
         THEN (IF cur = <<>> THEN <<>> ELSE <<cur>>) \o SplitWsAcc(Tail(s), <<>>)
         ELSE SplitWsAcc(Tail(s), Append(cur, Head(s)))
split_whitespace(s) == SplitWsAcc(s, <<>>)

\* Path::to_str is Some(text) only for a locator that is valid Unicode.
IsValidText(binary) == \A i \in 1..Len(binary) : binary[i] # BAD

\* Option<Vec<(&str, &str)>>
NoEnvs == [some |-> FALSE, list |-> <<>>]
SomeEnvs(list) == [some |-> TRUE, list |-> list]

NoDir == [set |-> FALSE, path |-> <<>>]
SomeDir(path) == [set |-> TRUE, path |-> path]

\* Mutant: a name already set keeps its first value.
SetEnv_KeepFirst(env, k, v) ==
    [n \in DOMAIN env \cup {k} |-> IF n \in DOMAIN env THEN env[n] ELSE v]

\* cmd.env(k, v): the Command's map of overrides, with k set to v.
SetEnv(env, k, v) ==
    [n \in DOMAIN env \cup {k} |-> IF n = k THEN v ELSE env[n]]

\* envs.unwrap().into_iter().for_each(|(k, v)| { cmd.env(k, v); })
RECURSIVE SetEnvs(_, _)
SetEnvs(env, list) ==
    IF list = <<>> THEN env
    ELSE SetEnvs(SetEnv(env, list[1][1], list[1][2]), Tail(list))

NoOverrides == [n \in {} |-> <<>>]

\* The value command() returns, or the panic it ends in.
BuiltCommand(program, args, dir, envs) ==
    [kind |-> "Command", program |-> program, args |-> args,
     current_dir |-> dir,
     envs |-> IF envs.some THEN SetEnvs(NoOverrides, envs.list) ELSE NoOverrides,
     stdout |-> "piped", stderr |-> "piped"]
BuilderPanic(where) == [kind |-> "panic", at |-> where]

\* Mutant: the first token is taken as the executable and the second as the
\* working directory.
command_TokensSwapped(binary, args, envs) ==
    IF ~IsValidText(binary) THEN BuilderPanic("to_str().unwrap()")
    ELSE LET s_binary == split_whitespace(binary)
         IN  IF Len(s_binary) = 1
             THEN BuiltCommand(s_binary[1], args, NoDir, envs)
             ELSE IF Len(s_binary) = 0
                  THEN BuilderPanic("first().unwrap()")
                  ELSE BuiltCommand(s_binary[1], args, SomeDir(s_binary[2]), envs)

\* fn command(binary, args, envs) -> Command, lines 18-56.
command(binary, args, envs) ==
    IF ~IsValidText(binary) THEN BuilderPanic("to_str().unwrap()")
    ELSE LET s_binary == split_whitespace(binary)
         IN  IF Len(s_binary) = 1
             THEN BuiltCommand(s_binary[1], args, NoDir, envs)
             ELSE IF Len(s_binary) = 0
                  THEN BuilderPanic("first().unwrap()")
                  ELSE BuiltCommand(s_binary[2], args, SomeDir(s_binary[1]), envs)

\* The environment the parent process runs in, which the child inherits.
InheritedEnv == (<<"K">> :> <<"o">>) @@ (<<"P">> :> <<"p">>)

\* The environment of a process spawned from cmd: the inherited one, with the
\* Command's overrides on top.
ChildEnv(cmd) ==
    [n \in DOMAIN InheritedEnv \cup DOMAIN cmd.envs |->
        IF n \in DOMAIN cmd.envs THEN cmd.envs[n] ELSE InheritedEnv[n]]

\* The locators, and the overrides, the builder is applied to.
LocatorChars == {"b", "d", " "}
BuildLocators ==
    SeqsUpTo(LocatorChars, MaxLocLen) \cup {<<"d", "\t", "b">>, <<BAD>>}
BuildEnvPairs ==
    {<<<<"K">>, <<"v">>>>, <<<<"K">>, <<"w">>>>, <<<<"N">>, <<"x">>>>}

\* The command the modelled call runs: a locator, its arguments and, for the
\* entry points that take them, its environment overrides.
RunBinary == <<"d", " ", "b">>
RunArgs == <<<<"x">>>>
RunEnvs == <<<<<<"K">>, <<"v">>>>>>

\* stdout_output(line) and stderr_output(line): output_from_cmd after the
\* handler has run.  The handlers of a direct caller are the caller's own.
stdout_output(item) ==
    IF caller = "run_version_command_for"
    THEN VersionStdoutHandler(output_from_cmd, item) ELSE output_from_cmd
stderr_output(item) ==
    IF caller = "run_version_command_for"
    THEN VersionStderrHandler(output_from_cmd, item) ELSE output_from_cmd

\* --------------------------------------------------------------------- Init
Init ==
    /\ entry = "none"
    /\ pc = "idle"
    /\ child = "none"
    /\ childPend = <<>>
    /\ exitStatus = NoStatus
    /\ outPipe = <<>> /\ errPipe = <<>>
    /\ outWritten = <<>> /\ errWritten = <<>>
    /\ outBuf = <<>> /\ errBuf = <<>>
    /\ outCalls = <<>> /\ errCalls = <<>>
    /\ outEof = FALSE /\ errEof = FALSE
    /\ waitCalled = FALSE
    /\ waitResult = "none"
    /\ outcome = <<>>
    /\ fmtIn = <<>>
    /\ command_string = <<>>
    /\ bldIn = <<>>
    /\ built = <<>>
    /\ lkIn = <<>>
    /\ lkOut = <<>>
    /\ caller = "none"
    /\ output_from_cmd = <<>>
    /\ handles = {}

\* ------------------------------------------------------------ the child
\* The child asks to write byte b to stream s ("out" or "err").  The write
\* completes if the pipe has room; otherwise the child blocks in it.
ChildWrite(s, b) ==
    /\ child = "running" /\ childPend = <<>>
    /\ entry \in Entries
    /\ (IF s = "out" THEN "stdout" ELSE "stderr") \in handles
    /\ IF s = "out"
       THEN /\ Len(outWritten) < MaxBytes
            /\ IF Len(outPipe) < PipeCap
               THEN /\ outPipe' = Append(outPipe, b)
                    /\ outWritten' = Append(outWritten, b)
                    /\ UNCHANGED childPend
               ELSE /\ childPend' = <<s, b>>
                    /\ UNCHANGED <<outPipe, outWritten>>
            /\ UNCHANGED <<errPipe, errWritten>>
       ELSE /\ Len(errWritten) < MaxBytes
            /\ IF Len(errPipe) < PipeCap
               THEN /\ errPipe' = Append(errPipe, b)
                    /\ errWritten' = Append(errWritten, b)
                    /\ UNCHANGED childPend
               ELSE /\ childPend' = <<s, b>>
                    /\ UNCHANGED <<errPipe, errWritten>>
            /\ UNCHANGED <<outPipe, outWritten>>
    /\ UNCHANGED <<entry, pc, child, exitStatus, outBuf, errBuf, outCalls,
                   errCalls, outEof, errEof, waitCalled, outcome, waitResult,
                   fmtVars, bldVars, lkVars, runVars>>

\* A blocked write completes once the parent has made room in the pipe.
ChildUnblock ==
    /\ child = "running" /\ childPend # <<>>
    /\ IF childPend[1] = "out"
       THEN /\ Len(outPipe) < PipeCap
            /\ outPipe' = Append(outPipe, childPend[2])
            /\ outWritten' = Append(outWritten, childPend[2])
            /\ UNCHANGED <<errPipe, errWritten>>
       ELSE /\ Len(errPipe) < PipeCap
            /\ errPipe' = Append(errPipe, childPend[2])
            /\ errWritten' = Append(errWritten, childPend[2])
            /\ UNCHANGED <<outPipe, outWritten>>
    /\ childPend' = <<>>
    /\ UNCHANGED <<entry, pc, child, exitStatus, outBuf, errBuf, outCalls,
                   errCalls, outEof, errEof, waitCalled, outcome, waitResult,
                   fmtVars, bldVars, lkVars, runVars>>

\* The parent has closed the read end of the pipe the child is blocked writing
\* to: the write fails (EPIPE) and the child goes on.
ChildBrokenPipe ==
    /\ child = "running" /\ childPend # <<>>
    /\ (IF childPend[1] = "out" THEN "stdout" ELSE "stderr") \notin handles
    /\ childPend' = <<>>
    /\ UNCHANGED <<entry, pc, child, exitStatus, outPipe, errPipe, outWritten,
                   errWritten, outBuf, errBuf, outCalls, errCalls, outEof,
                   errEof, waitCalled, outcome, waitResult,
                   fmtVars, bldVars, lkVars, runVars>>

\* The child terminates with status st; the kernel closes its pipe ends.  It
\* stays a process-table entry until the parent reaps it.
ChildExit(st) ==
    /\ child = "running" /\ childPend = <<>>
    /\ child' = "exited"
    /\ exitStatus' = st
    /\ UNCHANGED <<entry, pc, childPend, outPipe, errPipe, outWritten,
                   errWritten, outBuf, errBuf, outCalls, errCalls, outEof,
                   errEof, waitCalled, outcome, waitResult,
                   fmtVars, bldVars, lkVars, runVars>>

\* ------------------------------------------------- the four entry points
\* The caller calls entry point e; the function renders the command and logs
\* it (lines 62-63, 88-89, 135-136, 171-172), then builds the Command with
\* both streams piped (lines 41-43).
Call(e) ==
    /\ pc = "idle"
    /\ entry' = e
    /\ pc' = "spawn"
    /\ fmtIn' = <<[binary |-> RunBinary, args |-> RunArgs,
                   envs |-> IF e \in {"exec", "exec_with_output"} THEN <<>> ELSE RunEnvs,
                   with_envs |-> e \notin {"exec", "exec_with_output"}]>>
    /\ command_string' =
          IF e \in {"exec", "exec_with_output"}
          THEN command_to_string(RunBinary, RunArgs)
          ELSE command_with_envs_to_string(RunBinary, RunArgs, RunEnvs)
    /\ bldIn' = <<[binary |-> RunBinary, args |-> RunArgs,
                   envs |-> IF e \in {"exec", "exec_with_output"}
                            THEN NoEnvs ELSE SomeEnvs(RunEnvs)]>>
    /\ built' = command(RunBinary, RunArgs, bldIn'[1].envs)
    /\ caller' = "direct"
    /\ UNCHANGED <<child, childPend, exitStatus, outPipe, errPipe, outWritten,
                   errWritten, outBuf, errBuf, outCalls, errCalls, outEof,
                   errEof, waitCalled, waitResult, outcome, lkVars, output_from_cmd, handles>>

\* The caller calls run_version_command_for(binary_name), which starts with an
\* empty output_from_cmd and calls exec_with_output(binary_name,
\* vec!["--version"], ..) with its two closures (lines 197-219).
CallVersion ==
    /\ pc = "idle"
    /\ caller' = "run_version_command_for"
    /\ output_from_cmd' = <<>>
    /\ entry' = "exec_with_output"
    /\ pc' = "spawn"
    /\ fmtIn' = <<[binary |-> RunBinary, args |-> <<VersionArg>>,
                   envs |-> <<>>, with_envs |-> FALSE]>>
    /\ command_string' = command_to_string(RunBinary, <<VersionArg>>)
    /\ bldIn' = <<[binary |-> RunBinary, args |-> <<VersionArg>>, envs |-> NoEnvs]>>
    /\ built' = command(RunBinary, <<VersionArg>>, NoEnvs)
    /\ UNCHANGED <<child, childPend, exitStatus, outPipe, errPipe, outWritten,
                   errWritten, outBuf, errBuf, outCalls, errCalls, outEof,
                   errEof, waitCalled, waitResult, outcome, lkVars, handles>>

\* exec_with_output has returned to run_version_command_for, which discards
\* the Result and returns output_from_cmd (line 220).
VersionReturn ==
    /\ pc = "returned" /\ caller = "run_version_command_for"
    /\ pc' = "version_returned"
    /\ UNCHANGED <<entry, child, childPend, exitStatus, outPipe, errPipe,
                   outWritten, errWritten, outBuf, errBuf, outCalls, errCalls,
                   outEof, errEof, waitCalled, waitResult, outcome,
                   fmtVars, bldVars, lkVars, runVars>>

\* The caller calls does_binary_exist, which logs nothing.
CallProbe ==
    /\ pc = "idle"
    /\ entry' = "does_binary_exist"
    /\ pc' = "spawn"
    /\ caller' = "direct"
    /\ UNCHANGED <<child, childPend, exitStatus, outPipe, errPipe, outWritten,
                   errWritten, outBuf, errBuf, outCalls, errCalls, outEof,
                   errEof, waitCalled, waitResult, outcome, fmtVars, bldVars, lkVars, output_from_cmd, handles>>

\* spawn() returns Ok(child).  exec and exec_with_envs call wait() on it at
\* once; the observed entry points pass it to _with_output.
SpawnOk ==
    /\ pc = "spawn" /\ entry \in Entries
    /\ child' = "running"
    /\ IF entry \in ObservedEntries
       THEN pc' = "drain_out" /\ UNCHANGED waitCalled
       ELSE pc' = "wait" /\ waitCalled' = TRUE
    /\ handles' = ChildHandles
    /\ UNCHANGED <<entry, childPend, exitStatus, outPipe, errPipe, outWritten,
                   errWritten, outBuf, errBuf, outCalls, errCalls, outEof,
                   errEof, outcome, waitResult,
                   fmtVars, bldVars, lkVars, caller, output_from_cmd>>

\* spawn() returns Err (binary not found, permission denied, no resources):
\* .unwrap() panics, and nothing is returned to the caller.
SpawnFail ==
    /\ pc = "spawn" /\ entry \in Entries
    /\ pc' = "panicked"
    /\ UNCHANGED <<entry, child, childPend, exitStatus, outPipe, errPipe,
                   outWritten, errWritten, outBuf, errBuf, outCalls, errCalls,
                   outEof, errEof, waitCalled, outcome, waitResult,
                   fmtVars, bldVars, lkVars, runVars>>

\* ---------------------------------------------------------- _with_output
\* The stdout loop: read_line needs more bytes and read() returns k of those
\* in the pipe.  It blocks while the pipe is empty and its write end is open.
StdoutFill(k) ==
    /\ pc = "drain_out" /\ ~HasLF(outBuf)
    /\ k \in 1..Len(outPipe)
    /\ outBuf' = outBuf \o SubSeq(outPipe, 1, k)
    /\ outPipe' = SubSeq(outPipe, k + 1, Len(outPipe))
    /\ UNCHANGED <<entry, pc, child, childPend, exitStatus, errPipe,
                   outWritten, errWritten, errBuf, outCalls, errCalls, outEof,
                   errEof, waitCalled, outcome, waitResult,
                   fmtVars, bldVars, lkVars, runVars>>

\* Mutant: the newest line is handed over ahead of the calls already made.
StdoutLine_NewestFirst ==
    /\ pc = "drain_out" /\ HasLF(outBuf)
    /\ outCalls' = <<LineItem(SubSeq(outBuf, 1, FirstLF(outBuf) - 1))>> \o outCalls
    /\ outBuf' = SubSeq(outBuf, FirstLF(outBuf) + 1, Len(outBuf))
    /\ output_from_cmd' = stdout_output(LineItem(SubSeq(outBuf, 1, FirstLF(outBuf) - 1)))
    /\ UNCHANGED <<entry, pc, child, childPend, exitStatus, outPipe, errPipe,
                   outWritten, errWritten, errBuf, errCalls, outEof, errEof,
                   waitCalled, outcome, waitResult,
                   fmtVars, bldVars, lkVars, caller, handles>>

\* Mutant: an Err item ends the draining; the function goes straight to wait().
StdoutLine_AbortOnErr ==
    /\ pc = "drain_out" /\ HasLF(outBuf)
    /\ outCalls' = Append(outCalls, LineItem(SubSeq(outBuf, 1, FirstLF(outBuf) - 1)))
    /\ outBuf' = SubSeq(outBuf, FirstLF(outBuf) + 1, Len(outBuf))
    /\ output_from_cmd' = stdout_output(LineItem(SubSeq(outBuf, 1, FirstLF(outBuf) - 1)))
    /\ IF LineItem(SubSeq(outBuf, 1, FirstLF(outBuf) - 1)).ok
       THEN UNCHANGED <<pc, waitCalled>>
       ELSE pc' = "wait" /\ waitCalled' = TRUE
    /\ UNCHANGED <<entry, child, childPend, exitStatus, outPipe, errPipe,
                   outWritten, errWritten, errBuf, errCalls, outEof, errEof,
                   outcome, waitResult, fmtVars, bldVars, lkVars, caller, handles>>

\* lines() yields the bytes up to the first line feed; stdout_output(line).
StdoutLine ==
    /\ pc = "drain_out" /\ HasLF(outBuf)
    /\ outCalls' = Append(outCalls, LineItem(SubSeq(outBuf, 1, FirstLF(outBuf) - 1)))
    /\ outBuf' = SubSeq(outBuf, FirstLF(outBuf) + 1, Len(outBuf))
    /\ output_from_cmd' = stdout_output(LineItem(SubSeq(outBuf, 1, FirstLF(outBuf) - 1)))
    /\ UNCHANGED <<entry, pc, child, childPend, exitStatus, outPipe, errPipe,
                   outWritten, errWritten, errBuf, errCalls, outEof, errEof,
                   waitCalled, outcome, waitResult,
                   fmtVars, bldVars, lkVars, caller, handles>>

\* read() returns 0 (pipe empty, write end closed) with bytes of an
\* unterminated last line pending: lines() yields them as a line.
StdoutLast ==
    /\ pc = "drain_out" /\ ~HasLF(outBuf) /\ outBuf # <<>>
    /\ outPipe = <<>> /\ child # "running"
    /\ outCalls' = Append(outCalls, LineItem(outBuf))
    /\ outBuf' = <<>>
    /\ output_from_cmd' = stdout_output(LineItem(outBuf))
    /\ UNCHANGED <<entry, pc, child, childPend, exitStatus, outPipe, errPipe,
                   outWritten, errWritten, errBuf, errCalls, outEof, errEof,
                   waitCalled, outcome, waitResult,
                   fmtVars, bldVars, lkVars, caller, handles>>

\* read() returns 0 with nothing pending: lines() ends, and the function goes
\* on to the stderr loop.
StdoutEof ==
    /\ pc = "drain_out" /\ outBuf = <<>>
    /\ outPipe = <<>> /\ child # "running"
    /\ outEof' = TRUE
    /\ pc' = "drain_err"
    /\ UNCHANGED <<entry, child, childPend, exitStatus, outPipe, errPipe,
                   outWritten, errWritten, outBuf, errBuf, outCalls, errCalls,
                   errEof, waitCalled, outcome, waitResult,
                   fmtVars, bldVars, lkVars, runVars>>

\* The stderr loop, entered only after the stdout loop has ended.
StderrFill(k) ==
    /\ pc = "drain_err" /\ ~HasLF(errBuf)
    /\ k \in 1..Len(errPipe)
    /\ errBuf' = errBuf \o SubSeq(errPipe, 1, k)
    /\ errPipe' = SubSeq(errPipe, k + 1, Len(errPipe))
    /\ UNCHANGED <<entry, pc, child, childPend, exitStatus, outPipe,
                   outWritten, errWritten, outBuf, outCalls, errCalls, outEof,
                   errEof, waitCalled, outcome, waitResult,
                   fmtVars, bldVars, lkVars, runVars>>

\* Mutant: the stderr loop hands its lines to stdout_output.
StderrLine_ToStdout ==
    /\ pc = "drain_err" /\ HasLF(errBuf)
    /\ outCalls' = Append(outCalls, LineItem(SubSeq(errBuf, 1, FirstLF(errBuf) - 1)))
    /\ errBuf' = SubSeq(errBuf, FirstLF(errBuf) + 1, Len(errBuf))
    /\ output_from_cmd' = stdout_output(LineItem(SubSeq(errBuf, 1, FirstLF(errBuf) - 1)))
    /\ UNCHANGED <<entry, pc, child, childPend, exitStatus, outPipe, errPipe,
                   outWritten, errWritten, outBuf, errCalls, outEof, errEof,
                   waitCalled, waitResult, outcome, fmtVars, bldVars, lkVars, caller, handles>>

StderrLine ==
    /\ pc = "drain_err" /\ HasLF(errBuf)
    /\ errCalls' = Append(errCalls, LineItem(SubSeq(errBuf, 1, FirstLF(errBuf) - 1)))
    /\ errBuf' = SubSeq(errBuf, FirstLF(errBuf) + 1, Len(errBuf))
    /\ output_from_cmd' = stderr_output(LineItem(SubSeq(errBuf, 1, FirstLF(errBuf) - 1)))
    /\ UNCHANGED <<entry, pc, child, childPend, exitStatus, outPipe, errPipe,
                   outWritten, errWritten, outBuf, outCalls, outEof, errEof,
                   waitCalled, outcome, waitResult,
                   fmtVars, bldVars, lkVars, caller, handles>>

StderrLast ==
    /\ pc = "drain_err" /\ ~HasLF(errBuf) /\ errBuf # <<>>
    /\ errPipe = <<>> /\ child # "running"
    /\ errCalls' = Append(errCalls, LineItem(errBuf))
    /\ errBuf' = <<>>
    /\ output_from_cmd' = stderr_output(LineItem(errBuf))
    /\ UNCHANGED <<entry, pc, child, childPend, exitStatus, outPipe, errPipe,
                   outWritten, errWritten, outBuf, outCalls, outEof, errEof,
                   waitCalled, outcome, waitResult,
                   fmtVars, bldVars, lkVars, caller, handles>>

\* The stderr loop ends; _with_output returns the child and the entry point
\* calls child.wait() (lines 144, 180).
StderrEof ==
    /\ pc = "drain_err" /\ errBuf = <<>>
    /\ errPipe = <<>> /\ child # "running"
    /\ errEof' = TRUE
    /\ pc' = "wait"
    /\ waitCalled' = TRUE
    /\ UNCHANGED <<entry, child, childPend, exitStatus, outPipe, errPipe,
                   outWritten, errWritten, outBuf, errBuf, outCalls, errCalls,
                   outEof, outcome, waitResult,
                   fmtVars, bldVars, lkVars, runVars>>

\* ------------------------------------------------------ wait and the result
\* wait() returns Ok(exit_status) once the child has terminated, reaping it;
\* the entry point returns Ok(()) or the Command error, and the Child goes out
\* of scope, which closes its pipe ends and handle.
WaitOk ==
    /\ pc = "wait" /\ child = "exited"
    /\ child' = "reaped"
    /\ waitResult' = "ok"
    /\ outcome' = Append(outcome, MapExitStatus(exitStatus))
    /\ pc' = "returned"
    /\ handles' = {}
    /\ UNCHANGED <<entry, childPend, exitStatus, outPipe, errPipe, outWritten,
                   errWritten, outBuf, errBuf, outCalls, errCalls, outEof,
                   errEof, waitCalled, fmtVars, bldVars, lkVars, caller, output_from_cmd>>

\* Mutant: the Err arm of wait() falls through to the Command error.
WaitErr_AsCommand ==
    /\ pc = "wait"
    /\ waitResult' = "err"
    /\ outcome' = Append(outcome, CommandError(exitStatus))
    /\ pc' = "returned"
    /\ handles' = {}
    /\ UNCHANGED <<entry, child, childPend, exitStatus, outPipe, errPipe,
                   outWritten, errWritten, outBuf, errBuf, outCalls, errCalls,
                   outEof, errEof, waitCalled, fmtVars, bldVars, lkVars, caller, output_from_cmd>>

\* Mutant: the Err arm returns with the Child still held.
WaitErr_KeepsChild ==
    /\ pc = "wait"
    /\ waitResult' = "err"
    /\ outcome' = Append(outcome, SimpleErrorFrom)
    /\ pc' = "returned"
    /\ UNCHANGED <<entry, child, childPend, exitStatus, outPipe, errPipe,
                   outWritten, errWritten, outBuf, errBuf, outCalls, errCalls,
                   outEof, errEof, waitCalled, fmtVars, bldVars, lkVars, runVars>>

\* wait() returns Err(err): the entry point returns Err(SimpleError::from(err)),
\* and the Child goes out of scope, which closes its pipe ends and handle.
WaitErr ==
    /\ pc = "wait"
    /\ waitResult' = "err"
    /\ outcome' = Append(outcome, SimpleErrorFrom)
    /\ pc' = "returned"
    /\ handles' = {}
    /\ UNCHANGED <<entry, child, childPend, exitStatus, outPipe, errPipe,
                   outWritten, errWritten, outBuf, errBuf, outCalls, errCalls,
                   outEof, errEof, waitCalled, fmtVars, bldVars, lkVars, caller, output_from_cmd>>

\* -------------------------------------------------------- does_binary_exist
\* Command::new(binary) with stdin, stdout and stderr null; spawn() returns
\* Ok(_): the Child is dropped, neither killed nor waited on, and the probe
\* returns true.
ProbeSpawnOk ==
    /\ pc = "spawn" /\ entry = "does_binary_exist"
    /\ child' = "running"
    /\ outcome' = Append(outcome, BoolOutcome(TRUE))
    /\ pc' = "returned"
    /\ UNCHANGED <<entry, childPend, exitStatus, outPipe, errPipe, outWritten,
                   errWritten, outBuf, errBuf, outCalls, errCalls, outEof,
                   errEof, waitCalled, waitResult,
                   fmtVars, bldVars, lkVars, runVars>>

\* spawn() returns Err: the probe returns false, and no process exists.
ProbeSpawnErr ==
    /\ pc = "spawn" /\ entry = "does_binary_exist"
    /\ outcome' = Append(outcome, BoolOutcome(FALSE))
    /\ pc' = "returned"
    /\ UNCHANGED <<entry, child, childPend, exitStatus, outPipe, errPipe,
                   outWritten, errWritten, outBuf, errBuf, outCalls, errCalls,
                   outEof, errEof, waitCalled, waitResult,
                   fmtVars, bldVars, lkVars, runVars>>

\* ------------------------------------------------------------ specification
Next ==
    \/ \E e \in Entries : Call(e)
    \/ CallVersion
    \/ VersionReturn
    \/ CallProbe
    \/ SpawnOk
    \/ SpawnFail
    \/ \E s \in {"out", "err"}, b \in Bytes : ChildWrite(s, b)
    \/ ChildUnblock
    \/ ChildBrokenPipe
    \/ \E st \in ExitStatuses : ChildExit(st)
    \/ \E k \in 1..PipeCap : StdoutFill(k)
    \/ StdoutLine
    \/ StdoutLast
    \/ StdoutEof
    \/ \E k \in 1..PipeCap : StderrFill(k)
    \/ StderrLine
    \/ StderrLast
    \/ StderrEof
    \/ WaitOk
    \/ WaitErr
    \/ ProbeSpawnOk
    \/ ProbeSpawnErr

Spec == Init /\ [][Next]_vars

\* ------------------------------------------- the formatters, called directly
\* A caller renders a command with the public command_to_string.
CallCommandToString(binary, args) ==
    /\ fmtIn' = <<[binary |-> binary, args |-> args, envs |-> <<>>, with_envs |-> FALSE]>>
    /\ command_string' = command_to_string(binary, args)
    /\ UNCHANGED <<procVars, bldVars, lkVars>>

\* A caller renders a command with the public command_with_envs_to_string.
CallCommandWithEnvsToString(binary, args, envs) ==
    /\ fmtIn' = <<[binary |-> binary, args |-> args, envs |-> envs, with_envs |-> TRUE]>>
    /\ command_string' = command_with_envs_to_string(binary, args, envs)
    /\ UNCHANGED <<procVars, bldVars, lkVars>>

NextFmt ==
    \/ \E binary \in Locators, args \in SeqsUpTo(ArgWords, MaxArgs) :
          CallCommandToString(binary, args)
    \/ \E binary \in Locators, args \in SeqsUpTo(ArgWords, MaxArgs),
          envs \in SeqsUpTo(EnvPairs, MaxEnvs) :
          CallCommandWithEnvsToString(binary, args, envs)

SpecFmt == Init /\ [][NextFmt]_vars

\* --------------------------------------------------- the builder, applied alone
\* command(binary, args, envs) is applied to one input.
BuildCommand(binary, args, envs) ==
    /\ bldIn = <<>>
    /\ bldIn' = <<[binary |-> binary, args |-> args, envs |-> envs]>>
    /\ built' = command(binary, args, envs)
    /\ UNCHANGED <<procVars, fmtVars, lkVars>>

NextBuild ==
    /\ bldIn = <<>>
    /\ \E binary \in BuildLocators, args \in SeqsUpTo(ArgWords, MaxArgs),
          envs \in {NoEnvs} \cup {SomeEnvs(l) : l \in SeqsUpTo(BuildEnvPairs, MaxEnvs)} :
          BuildCommand(binary, args, envs)

SpecBuild == Init /\ [][NextBuild]_vars

\* ------------------------------------------------------------ the cluster lookup
\* cloud_provider/digitalocean/common.rs.  A cluster of the API's answer has an
\* id and a name; names are text, ids are opaque.
ClusterNames == {<<"k">>, <<"k", "k">>, <<"K">>}
ClusterIds == {"u1", "u2"}
ClusterLists == SeqsUpTo([id : ClusterIds, name : ClusterNames], MaxClusters)

\* What the HTTP GET can come to: no response, a status other than 200, a body
\* that cannot be read, a body that is no JSON of Clusters, or a cluster list.
Responses ==
    {[kind |-> k, clusters |-> <<>>] :
        k \in {"send_error", "status_other", "body_error", "bad_json"}}
    \cup {[kind |-> "ok", clusters |-> l] : l \in ClusterLists}

\* Mutant: a cluster matches when its name starts with the name looked for.
NameEq_StartsWith(name, kubeName) ==
    /\ Len(name) >= Len(kubeName)
    /\ SubSeq(name, 1, Len(kubeName)) = kubeName

\* cluster.name.eq(kubeName)
NameEq(name, kubeName) == name = kubeName

NoUuid == [some |-> FALSE, uuid |-> ""]
SomeUuid(id) == [some |-> TRUE, uuid |-> id]

\* fn search_uuid_cluster_for(kubeName, clusters) -> Option<String>
RECURSIVE search_uuid_cluster_for(_, _)
search_uuid_cluster_for(kubeName, clusters) ==
    IF clusters = <<>> THEN NoUuid
    ELSE IF NameEq(Head(clusters).name, kubeName) THEN SomeUuid(Head(clusters).id)
    ELSE search_uuid_cluster_for(kubeName, Tail(clusters))

\* SimpleError::new(SimpleErrorKind::Other, Some(message))
OtherError(message) == [tag |-> "Other", uuid |-> "", message |-> message]
NoMatchError == OtherError("Unable to retrieve cluster id from this name")

\* fn get_uuid_of_cluster(token, kubeID) -> Result<String, SimpleError>, for
\* the response resp to its GET.
get_uuid_of_cluster(kubeID, resp) ==
    CASE resp.kind = "send_error" ->
            OtherError("Unable to get any responses from Digital Ocean")
      [] resp.kind = "status_other" ->
            OtherError("Receive weird status Code from Digital Ocean while retrieving the cluster list")
      [] resp.kind = "body_error" ->
            [tag |-> "panic", uuid |-> "", message |-> "response.text().unwrap()"]
      [] resp.kind = "bad_json" ->
            OtherError("While trying to deserialize json received from Digital Ocean API")
      [] resp.kind = "ok" ->
            LET found == search_uuid_cluster_for(kubeID, resp.clusters)
            IN  IF found.some
                THEN [tag |-> "Ok", uuid |-> found.uuid, message |-> ""]
                ELSE NoMatchError

\* A caller looks the cluster named kubeID up, and the API answers resp.
GetUuidOfCluster(kubeID, resp) ==
    /\ lkIn' = <<[name |-> kubeID, response |-> resp]>>
    /\ lkOut' = <<get_uuid_of_cluster(kubeID, resp)>>
    /\ UNCHANGED <<procVars, fmtVars, bldVars>>

NextLookup ==
    /\ lkIn = <<>>
    /\ \E kubeID \in ClusterNames, resp \in Responses : GetUuidOfCluster(kubeID, resp)

SpecLookup == Init /\ [][NextLookup]_vars

\* ==================================================================== claims

\* ---- helpers of the claims
\* The lines of a byte stream, read off the bytes one at a time: a line ends at
\* each line feed, and bytes after the last line feed are a last line.
RECURSIVE LinesAcc(_, _)
LinesAcc(bs, cur) ==
    IF bs = <<>> THEN (IF cur = <<>> THEN <<>> ELSE <<cur>>)
    ELSE IF Head(bs) = LF THEN <<cur>> \o LinesAcc(Tail(bs), <<>>)
    ELSE LinesAcc(Tail(bs), Append(cur, Head(bs)))
WrittenLines(bs) == LinesAcc(bs, <<>>)

IsText(line) == \A i \in 1..Len(line) : line[i] # BAD

\* The handler calls are, one for one and in order, the lines written: a line
\* of text arrives whole as Ok(line), a line that is no text as an Err.
CallsMatchLines(calls, lines) ==
    /\ Len(calls) = Len(lines)
    /\ \A i \in 1..Len(lines) :
          IF IsText(lines[i])
          THEN calls[i].ok /\ calls[i].text = lines[i]
          ELSE ~calls[i].ok

\* The pieces of s between occurrences of the character c.
RECURSIVE SplitAcc(_, _, _)
SplitAcc(s, c, cur) ==
    IF s = <<>> THEN <<cur>>
    ELSE IF Head(s) = c THEN <<cur>> \o SplitAcc(Tail(s), c, <<>>)
    ELSE SplitAcc(Tail(s), c, Append(cur, Head(s)))
SplitOn(s, c) == SplitAcc(s, c, <<>>)

\* The child is blocked writing to stream s, whose pipe is full.
ChildBlockedOn(s) ==
    /\ child = "running" /\ childPend # <<>> /\ childPend[1] = s
    /\ Len(IF s = "out" THEN outPipe ELSE errPipe) = PipeCap

\* The parent is blocked in read() on stream s: it needs bytes, the pipe holds
\* none, and the write end is open.
ParentBlockedReading(s) ==
    /\ child = "running"
    /\ IF s = "out"
       THEN pc = "drain_out" /\ ~HasLF(outBuf) /\ outPipe = <<>>
       ELSE pc = "drain_err" /\ ~HasLF(errBuf) /\ errPipe = <<>>

\* C1: in exec_with_output and exec_with_envs_and_output, the child is never
\* blocked writing to a full pipe while the parent is blocked reading the
\* other pipe.
C1_NoPipeDeadlock ==
    entry \in ObservedEntries =>
        /\ ~(ChildBlockedOn("err") /\ ParentBlockedReading("out"))
        /\ ~(ChildBlockedOn("out") /\ ParentBlockedReading("err"))

\* C2: in each of the four entry points, wait() has been called only if both
\* standard output and standard error have reached end-of-stream.
C2_WaitOnlyAfterBothEof ==
    (entry \in Entries /\ waitCalled) => (outEof /\ errEof)

\* C3: when exec has returned and the child exited with code 0 (the status
\* wait() gave), what exec returned is Ok(()).
C3_ZeroExitIsSuccess ==
    (entry = "exec" /\ pc = "returned" /\ waitResult = "ok"
        /\ exitStatus = [kind |-> "exited", n |-> 0])
    => outcome = <<OkOutcome>>

C3_Witness ==
    /\ entry = "exec" /\ pc = "returned" /\ waitResult = "ok"
    /\ exitStatus = [kind |-> "exited", n |-> 0]
    /\ outWritten # <<>>

\* C4: when an entry point has returned and the status wait() gave is not a
\* success (a nonzero code N, or a signal), what it returned is the Command
\* error carrying exactly that status, and never Ok(()).
C4_FailureCarriesStatus ==
    (entry \in Entries /\ pc = "returned" /\ waitResult = "ok"
        /\ exitStatus # [kind |-> "exited", n |-> 0])
    => /\ Len(outcome) = 1
       /\ outcome[1].tag = "Command"
       /\ outcome[1].status = exitStatus

C4_Witness ==
    /\ entry \in Entries /\ pc = "returned" /\ waitResult = "ok"
    /\ exitStatus = [kind |-> "exited", n |-> MaxExitCode]
    /\ outcome = <<[tag |-> "Command", status |-> [kind |-> "exited", n |-> MaxExitCode]]>>

\* C5: when an observed entry point has produced its outcome, stdout_output
\* has been called once per line the child wrote to standard output and
\* stderr_output once per line it wrote to standard error, each call with
\* one whole line, in order.
C5_OneCallPerLine ==
    (entry \in ObservedEntries /\ outcome # <<>>)
    => /\ CallsMatchLines(outCalls, WrittenLines(outWritten))
       /\ CallsMatchLines(errCalls, WrittenLines(errWritten))

C5_Witness ==
    /\ entry \in ObservedEntries /\ pc = "returned"
    /\ Len(outCalls) >= 2 /\ Len(errCalls) >= 1
    /\ \E i \in 1..Len(outCalls) : outCalls[i].ok /\ outCalls[i].text # <<>>

\* C6: when the process cannot be created, an entry point returns a
\* LaunchFailed error to its caller: it does not panic, and it returns
\* neither Ok(()) nor the Command error.
C6_LaunchFailureIsReturned ==
    (entry \in Entries /\ pc \notin {"idle", "spawn"} /\ child = "none")
    => /\ pc = "returned"
       /\ Len(outcome) = 1
       /\ outcome[1].tag \notin {"Ok", "Command"}

\* C7: a call of an entry point that has ended has produced exactly one
\* outcome, and no call produces more than one.
C7_ExactlyOneOutcome ==
    /\ Len(outcome) <= 1
    /\ (entry \in Entries /\ pc \in {"returned", "panicked"}) => Len(outcome) = 1

\* C8: when wait() returns an error, the entry point returns one error value
\* that is neither Ok(()) nor the Command(exit_status) error.
C8_WaitErrorIsDistinct ==
    waitResult = "err"
    => /\ pc \in {"returned", "version_returned"}
       /\ Len(outcome) = 1
       /\ outcome[1].tag \notin {"Ok", "Command"}
       /\ outcome[1].status = NoStatus

C8_Witness ==
    /\ entry \in Entries /\ waitResult = "err"
    /\ child = "exited" /\ exitStatus.kind = "exited" /\ exitStatus.n # 0

\* C9: once does_binary_exist has returned, no process it created is running
\* or unreaped.
C9_ProbeLeavesNoProcess ==
    (entry = "does_binary_exist" /\ pc = "returned") => child \in {"none", "reaped"}

\* The formatter was last applied, with overrides, to the example command.
IsExampleInput ==
    fmtIn = <<[binary |-> TmpWorkMytool, args |-> <<FlagArg, <<"x">>>>,
               envs |-> <<<<<<"F", "O", "O">>, <<"b", "a", "r">>>>>>,
               with_envs |-> TRUE]>>

\* C10 (as claimed): for binary "/tmp/work mytool", args ["--flag", "x"] and
\* env [("FOO", "bar")], command_with_envs_to_string gives exactly
\* "FOO=bar /tmp/work --flag x".
C10_ExampleAsClaimed ==
    IsExampleInput =>
        command_string =
            <<"F", "O", "O", "=", "b", "a", "r", " ",
              "/", "t", "m", "p", "/", "w", "o", "r", "k", " ",
              "-", "-", "f", "l", "a", "g", " ", "x">>

\* C10 (amended): command_with_envs_to_string gives the overrides as
\* NAME=value joined by single spaces, one space, the whole locator, one space,
\* the arguments joined by single spaces; for the example that is exactly
\* "FOO=bar /tmp/work mytool --flag x".
C10_EnvsThenLocatorThenArgs ==
    (fmtIn # <<>> /\ fmtIn[1].with_envs) =>
        LET in == fmtIn[1]
            pairs == [i \in 1..Len(in.envs) |->
                         in.envs[i][1] \o <<"=">> \o in.envs[i][2]]
        IN  /\ SplitOn(command_string, " ") =
                  (IF in.envs = <<>> THEN <<<<>>>> ELSE pairs)
                  \o SplitOn(in.binary, " ")
                  \o (IF in.args = <<>> THEN <<<<>>>> ELSE in.args)
            /\ IsExampleInput =>
                  command_string =
                      <<"F", "O", "O", "=", "b", "a", "r", " ",
                        "/", "t", "m", "p", "/", "w", "o", "r", "k", " ",
                        "m", "y", "t", "o", "o", "l", " ",
                        "-", "-", "f", "l", "a", "g", " ", "x">>

C10_Witness ==
    /\ IsExampleInput
    /\ pc = "idle"
    /\ Len(command_string) > 0

\* ---- helpers of the builder's claims
\* The tokens of a locator, found by position: a token starts at a character
\* that is no blank and follows a blank or nothing, and runs to the last
\* character before the next blank.
Blank(c) == c \in {" ", "\t", "\n"}
TokenStarts(s) == {i \in 1..Len(s) : ~Blank(s[i]) /\ (i = 1 \/ Blank(s[i - 1]))}
TokenCount(s) == Cardinality(TokenStarts(s))
TokenEnd(s, i) ==
    CHOOSE j \in i..Len(s) :
        /\ \A k \in i..j : ~Blank(s[k])
        /\ (j = Len(s) \/ Blank(s[j + 1]))
NthStart(s, n) ==
    CHOOSE i \in TokenStarts(s) : Cardinality({j \in TokenStarts(s) : j <= i}) = n
Token(s, n) == SubSeq(s, NthStart(s, n), TokenEnd(s, NthStart(s, n)))
IsTextLocator(s) == \A i \in 1..Len(s) : s[i] # BAD

\* C11: for a locator of exactly one token the built Command has no working
\* directory and that token as its executable; for a locator of two or more
\* tokens it has the first token as working directory and the second as
\* executable, whatever tokens follow; its argument list is the caller's.
C11_BuilderSplitsLocator ==
    (bldIn # <<>> /\ IsTextLocator(bldIn[1].binary) /\ TokenCount(bldIn[1].binary) >= 1)
    => LET loc == bldIn[1].binary
       IN  /\ built.kind = "Command"
           /\ built.args = bldIn[1].args
           /\ TokenCount(loc) = 1 =>
                 /\ ~built.current_dir.set
                 /\ built.program = Token(loc, 1)
           /\ TokenCount(loc) >= 2 =>
                 /\ built.current_dir.set
                 /\ built.current_dir.path = Token(loc, 1)
                 /\ built.program = Token(loc, 2)

C11_Witness ==
    /\ bldIn # <<>> /\ entry = "none"
    /\ bldIn[1].binary = <<"d", " ", "b", " ", "b">>
    /\ Len(bldIn[1].args) = 2 /\ bldIn[1].args[1] # bldIn[1].args[2]
    /\ built.kind = "Command"
    /\ built.program = <<"b">> /\ built.current_dir = [set |-> TRUE, path |-> <<"d">>]

\* C12: for every locator the builder ends with a Command or with an
\* InvalidInput error value, the latter only for a locator that is no text; it
\* never panics.
C12_BuilderNeverPanics ==
    bldIn # <<>> =>
        /\ built.kind \in {"Command", "InvalidInput"}
        /\ built.kind = "InvalidInput" => ~IsTextLocator(bldIn[1].binary)

\* C13: in the environment of a process spawned from the built Command, a name
\* no override names has its inherited value (or is absent, if not inherited),
\* and a name some overrides name has the value of the last of them.
C13_LastOverrideWins ==
    (bldIn # <<>> /\ built.kind = "Command") =>
        LET list == bldIn[1].envs.list
            env == ChildEnv(built)
            names == DOMAIN InheritedEnv \cup {list[i][1] : i \in 1..Len(list)}
        IN  /\ DOMAIN env = names
            /\ \A n \in names :
                  LET occ == {i \in 1..Len(list) : list[i][1] = n}
                  IN  IF occ = {}
                      THEN env[n] = InheritedEnv[n]
                      ELSE env[n] = list[CHOOSE i \in occ : \A j \in occ : j <= i][2]

C13_Witness ==
    /\ bldIn # <<>> /\ built.kind = "Command"
    /\ bldIn[1].envs = [some |-> TRUE, list |-> <<<<<<"K">>, <<"v">>>>, <<<<"K">>, <<"w">>>>>>]
    /\ ChildEnv(built)[<<"K">>] = <<"w">>
    /\ ChildEnv(built)[<<"P">>] = <<"p">>

\* C15: the lookup returns an identifier only if the API answered a list in
\* which some cluster has exactly the name looked for, and then the identifier
\* of such a cluster; when no cluster of the answered list has that name it
\* returns the no-match error.
C15_NoFalseIdentifier ==
    lkIn # <<>> =>
        LET name == lkIn[1].name
            resp == lkIn[1].response
            out == lkOut[1]
            matches == {i \in 1..Len(resp.clusters) : resp.clusters[i].name = name}
        IN  /\ out.tag = "Ok" =>
                  /\ resp.kind = "ok"
                  /\ \E i \in matches : resp.clusters[i].id = out.uuid
            /\ (resp.kind = "ok" /\ matches = {}) =>
                  /\ out.tag = "Other"
                  /\ out.message = "Unable to retrieve cluster id from this name"

C15_Witness ==
    /\ lkIn # <<>>
    /\ lkIn[1].name = <<"k">>
    /\ lkIn[1].response.kind = "ok"
    /\ lkIn[1].response.clusters =
          <<[id |-> "u1", name |-> <<"k", "k">>], [id |-> "u2", name |-> <<"k">>]>>
    /\ lkOut[1].tag = "Ok" /\ lkOut[1].uuid = "u2"

\* The text of the lines that are text, one after the other, nothing between.
RECURSIVE ConcatTextLines(_)
ConcatTextLines(lines) ==
    IF lines = <<>> THEN <<>>
    ELSE (IF IsText(Head(lines)) THEN Head(lines) ELSE <<>>)
         \o ConcatTextLines(Tail(lines))

\* C14: run_version_command_for runs the binary with the single argument
\* --version, and what it returns is the lines the child wrote to standard
\* output, concatenated in the order written; no line of standard error is
\* in it, and it is the empty string when there was no stdout line.
C14_VersionIsStdoutLines ==
    (caller = "run_version_command_for" /\ pc = "version_returned") =>
        /\ built.kind = "Command" /\ built.args = <<VersionArg>>
        /\ output_from_cmd = ConcatTextLines(WrittenLines(outWritten))
        /\ (outCalls = <<>> => output_from_cmd = <<>>)

C14_Witness ==
    /\ caller = "run_version_command_for" /\ pc = "version_returned"
    /\ Len(WrittenLines(outWritten)) >= 2
    /\ output_from_cmd = <<"a", "a">>
    /\ \E i \in 1..Len(errCalls) : errCalls[i].ok /\ errCalls[i].text # <<>>

\* C16: in the observed entry points the draining of one stream does not wait
\* for the other: the parent is never blocked reading standard output (which
\* is not at end-of-stream) while a whole line the child wrote to standard
\* error waits in the pipe, nor blocked reading standard error while a whole
\* line waits on standard output.
C16_StreamsDrainIndependently ==
    entry \in ObservedEntries =>
        /\ ~(ParentBlockedReading("out") /\ ~outEof /\ HasLF(errPipe))
        /\ ~(ParentBlockedReading("err") /\ ~errEof /\ HasLF(outPipe))

\* C17: exec and exec_with_envs drain the pipes before they wait, so the
\* parent is never in wait() while the child, which would exit once its
\* output is accepted, is blocked writing to a full pipe.
C17_PlainEntriesDrainBeforeWait ==
    entry \in PlainEntries =>
        ~(pc = "wait" /\ (ChildBlockedOn("out") \/ ChildBlockedOn("err")))

\* The calls of a handler that were given an Err.
ErrCalls(calls) == {i \in 1..Len(calls) : ~calls[i].ok}
\* The lines of a stream that cannot be read as text.
UnreadableLines(bs) ==
    {i \in 1..Len(WrittenLines(bs)) : ~IsText(WrittenLines(bs)[i])}

\* C18: a read error goes to its stream's handler as an Err, one call per
\* error, and ends nothing: once a handler has been given an Err, wait() is
\* called only after both streams have ended, and when the call returns
\* every line of both streams has had its handler call and the value
\* returned is the one the exit status determines.
C18_ReadErrorDoesNotAbort ==
    (entry \in ObservedEntries /\ (ErrCalls(outCalls) \cup ErrCalls(errCalls)) # {}) =>
        /\ pc \in {"drain_out", "drain_err", "wait", "returned", "version_returned"}
        /\ waitCalled => (outEof /\ errEof)
        /\ pc \in {"returned", "version_returned"} =>
              /\ Cardinality(ErrCalls(outCalls)) = Cardinality(UnreadableLines(outWritten))
              /\ Cardinality(ErrCalls(errCalls)) = Cardinality(UnreadableLines(errWritten))
              /\ Len(outCalls) = Len(WrittenLines(outWritten))
              /\ Len(errCalls) = Len(WrittenLines(errWritten))
              /\ outPipe = <<>> /\ errPipe = <<>> /\ outBuf = <<>> /\ errBuf = <<>>
              /\ waitCalled
              /\ waitResult = "ok" =>
                    outcome = <<IF exitStatus.kind = "exited" /\ exitStatus.n = 0
                                THEN OkOutcome ELSE CommandError(exitStatus)>>

C18_Witness ==
    /\ entry \in ObservedEntries /\ pc = "returned" /\ waitResult = "ok"
    /\ ErrCalls(outCalls) # {}
    /\ \E i \in 1..Len(errCalls) : errCalls[i].ok /\ errCalls[i].text # <<>>
    /\ exitStatus.kind = "exited" /\ exitStatus.n = 1
    /\ outcome = <<CommandError(exitStatus)>>

\* The k-th handler call was made for the k-th line written, for every call
\* made so far.
CallsInLineOrder(calls, lines) ==
    /\ Len(calls) <= Len(lines)
    /\ \A k \in 1..Len(calls) :
          IF calls[k].ok THEN calls[k].text = lines[k] ELSE ~IsText(lines[k])

\* C19: at every moment of an observed entry point, the calls made so far to
\* each stream's handler are for the first lines the child wrote to that
\* stream, in the order it wrote them: the call for an earlier line is never
\* after the call for a later one.
C19_LinesInOrder ==
    entry \in ObservedEntries =>
        /\ CallsInLineOrder(outCalls, WrittenLines(outWritten))
        /\ CallsInLineOrder(errCalls, WrittenLines(errWritten))

C19_Witness ==
    /\ entry \in ObservedEntries /\ pc = "drain_out"
    /\ Len(outCalls) = 2
    /\ outCalls[1].ok /\ outCalls[2].ok
    /\ outCalls[1].text = <<"a">> /\ outCalls[2].text = <<>>

\* C20: from spawn to return the parent's Child holds the two pipe read ends
\* and the process handle, and once an entry point has returned, whatever it
\* returned (Ok, the Command error, or the error of a failed wait) and
\* whatever its handlers were given, the parent holds none of them.
C20_NothingHeldAfterReturn ==
    entry \in Entries =>
        /\ pc \in {"drain_out", "drain_err", "wait"} => handles = ChildHandles
        /\ pc \in {"returned", "version_returned"} => handles = {}

C20_Witness ==
    /\ entry \in ObservedEntries /\ pc = "returned" /\ waitResult = "err"
    /\ \E i \in 1..Len(outCalls) : ~outCalls[i].ok
    /\ outcome = <<SimpleErrorFrom>>
    /\ handles = {}

====
